---- MODULE Spec2Model ----
(***************************************************************************)
(* Model of generar_articulos_blog_v2.py: the pipeline that turns every    *)
(* "###" heading of the Markdown documents into one blog post, with a      *)
(* file cache, a quality gate, one repair call and a SQLite posts table.   *)
(*                                                                         *)
(* Text of the documents (names, lines, headings, titles, categories) is   *)
(* a sequence of characters, each a string (a non-ASCII character is       *)
(* written as its name, "o_acute", "EMDASH"); a document is the sequence   *)
(* of its lines.  Text produced by the generator is a sequence of lines,   *)
(* each line a sequence of tokens (words and Markdown markers) separated   *)
(* by single spaces.                                                       *)
(***************************************************************************)
EXTENDS Integers, Sequences, FiniteSets, TLC

(***************************************************************************)
(* Bounds of the model.                                                    *)
(***************************************************************************)
\* runs of main started by all processes together
MaxRuns == 2

(***************************************************************************)
(* Program constants.                                                      *)
(***************************************************************************)
RETRIES == 3
\* quality_check: a line repeated this many times is excessive repetition
RepeatThreshold == 6
\* strip_numbering_from_h3: (?:[\.\-]\d+){0,6}
MaxNumberGroups == 6
\* extract_section_context: max_chars default
MaxChars == 12000

(***************************************************************************)
(* Characters and Python's str / re primitives on character sequences.     *)
(***************************************************************************)
Whitespace == {" ", "\t", "\n"}
Digits == {"0", "1", "2", "3", "4", "5", "6", "7", "8", "9"}
\* "-", the en dash and the em dash (named: the module is ASCII)
Dashes == {"-", "ENDASH", "EMDASH"}
\* [\)\.\-<en dash><em dash>:]
NumberPunct == {")", ".", ":"} \cup Dashes
\* [\.\-]
NumberSep == {".", "-"}

IsWs(c) == c \in Whitespace

\* str.lower() on the letters the labels of strip_numbering_from_h3 use
LowerChar(c) ==
    CASE c = "L" -> "l" [] c = "E" -> "e" [] c = "C" -> "c" [] c = "I" -> "i"
      [] c = "O" -> "o" [] c = "N" -> "n" [] c = "S" -> "s" [] c = "T" -> "t"
      [] c = "M" -> "m" [] c = "A" -> "a" [] c = "P" -> "p" [] c = "U" -> "u"
      [] c = "D" -> "d" [] c = "O_ACUTE" -> "o_acute" [] c = "I_ACUTE" -> "i_acute"
      [] OTHER -> c

Lower(s) == [i \in 1..Len(s) |-> LowerChar(s[i])]

Drop(s, n) == SubSeq(s, n + 1, Len(s))

StartsWith(s, prefix) ==
    /\ Len(s) >= Len(prefix)
    /\ SubSeq(s, 1, Len(prefix)) = prefix

\* the number of leading characters of s that belong to set
RECURSIVE SpanLen(_, _)
SpanLen(s, set) ==
    IF s # <<>> /\ s[1] \in set THEN 1 + SpanLen(Tail(s), set) ELSE 0

\* str.lstrip(), str.rstrip(), str.strip()
LStrip(s) == Drop(s, SpanLen(s, Whitespace))

RECURSIVE RStrip(_)
RStrip(s) ==
    IF s # <<>> /\ IsWs(s[Len(s)]) THEN RStrip(SubSeq(s, 1, Len(s) - 1)) ELSE s

Strip(s) == RStrip(LStrip(s))

\* re.sub(r"\s{2,}", " ", s): every run of two or more blanks becomes one space
RECURSIVE CollapseWs(_)
CollapseWs(s) ==
    IF s = <<>> THEN <<>>
    ELSE LET n == SpanLen(s, Whitespace)
         IN  IF n >= 2 THEN <<" ">> \o CollapseWs(Drop(s, n))
             ELSE <<s[1]>> \o CollapseWs(Tail(s))

(***************************************************************************)
(* strip_numbering_from_h3                                                 *)
(***************************************************************************)
\* (lecci[o|o_acute]n|lesson|tema|cap[i|i_acute]tulo|unidad), matched with re.IGNORECASE
LabelWords ==
    << <<"l","e","c","c","i","o","n">>, <<"l","e","c","c","i","o_acute","n">>,
       <<"l","e","s","s","o","n">>, <<"t","e","m","a">>,
       <<"c","a","p","i","t","u","l","o">>, <<"c","a","p","i_acute","t","u","l","o">>,
       <<"u","n","i","d","a","d">> >>

\* re.sub(r"^(lecci[o|o_acute]n|...|unidad)\s*", "", t, flags=re.IGNORECASE)
StripLabel(t) ==
    LET hits == {i \in 1..Len(LabelWords) : StartsWith(Lower(t), LabelWords[i])}
    IN  IF hits = {} THEN t
        ELSE LET w == LabelWords[CHOOSE i \in hits : \A j \in hits : i <= j]
             IN  LStrip(Drop(t, Len(w)))

\* (?:[\.\-]\d+){0,6}: the characters the greedy repetition consumes
RECURSIVE NumberGroupsLen(_, _)
NumberGroupsLen(s, left) ==
    IF left > 0 /\ Len(s) >= 2 /\ s[1] \in NumberSep /\ s[2] \in Digits
    THEN LET n == 1 + SpanLen(Tail(s), Digits)
         IN  n + NumberGroupsLen(Drop(s, n), left - 1)
    ELSE 0

\* re.sub(r"^\s*\d+(?:[\.\-]\d+){0,6}\s*[\)\.\-<en dash><em dash>:]*\s*", "", t)
StripNumber(t) ==
    LET a == LStrip(t)
        d == SpanLen(a, Digits)
    IN  IF d = 0 THEN t
        ELSE LET b == Drop(a, d)
                 c == Drop(b, NumberGroupsLen(b, MaxNumberGroups))
                 e == LStrip(c)
                 f == Drop(e, SpanLen(e, NumberPunct))
             IN  LStrip(f)

\* re.sub(r"^\s*[<en dash><em dash>-]\s*", "", t)
StripDash(t) ==
    LET a == LStrip(t)
    IN  IF a # <<>> /\ a[1] \in Dashes THEN LStrip(Tail(a)) ELSE t

strip_numbering_from_h3(title) ==
    LET t == Strip(CollapseWs(StripDash(StripNumber(StripLabel(Strip(title))))))
    IN  IF t # <<>> THEN t ELSE Strip(title)

(***************************************************************************)
(* Markdown headings: re.match(r"^\s*#{n}\s+(.+?)\s*$", line)              *)
(***************************************************************************)
Hashes(n) == [i \in 1..n |-> "#"]

\* the match succeeds: n hashes after the leading blanks, a blank, and at
\* least one more character for the group
HeadingMatches(line, n) ==
    LET a == LStrip(line)
    IN  /\ Len(a) >= n + 2
        /\ SubSeq(a, 1, n) = Hashes(n)
        /\ IsWs(a[n + 1])

\* m.group(1).strip()
HeadingText(line, n) == Strip(Drop(LStrip(line), n))

\* re.match(r"^\s*#{1,2}\s+", line)
IsH1OrH2(line) ==
    LET a == LStrip(line)
    IN  \/ Len(a) >= 2 /\ a[1] = "#" /\ IsWs(a[2])
        \/ Len(a) >= 3 /\ a[1] = "#" /\ a[2] = "#" /\ IsWs(a[3])

(***************************************************************************)
(* extract_front_matter: the body of a document (the metadata block is     *)
(* read and dropped by main).                                              *)
(***************************************************************************)
FrontMatterMark == <<"-", "-", "-">>

extract_front_matter(md) ==
    IF md = <<>> \/ md[1] # FrontMatterMark THEN md
    ELSE LET ends == {j \in 2..Len(md) : md[j] = FrontMatterMark}
         IN  IF ends = {} THEN md
             ELSE Drop(md, CHOOSE j \in ends : \A k \in ends : j <= k)

(***************************************************************************)
(* extract_h3_items                                                        *)
(***************************************************************************)
\* "Sin seccion principal" and "Sin subseccion", one named character each
NoH1Label == <<"Sin seccion principal">>
NoH2Label == <<"Sin subseccion">>

\* Path.stem of a name matched by *.md, and file_path.stem.strip() or file_path.name
Stem(name) == IF Len(name) > 3 THEN SubSeq(name, 1, Len(name) - 3) ELSE name
FileStem(name) == IF Strip(Stem(name)) # <<>> THEN Strip(Stem(name)) ELSE name

\* f"{file_stem}, {h1}, {h2}"
Category(file_stem, h1, h2) ==
    file_stem \o <<",", " ">> \o h1 \o <<",", " ">> \o h2

H3Item(name, h1_current, h2_current, raw_h3) ==
    LET h1 == IF Strip(h1_current) # <<>> THEN Strip(h1_current) ELSE NoH1Label
        h2 == IF Strip(h2_current) # <<>> THEN Strip(h2_current) ELSE NoH2Label
    IN  [file_name |-> name, file_stem |-> FileStem(name), h1 |-> h1, h2 |-> h2,
         h3_raw |-> raw_h3, h3_title |-> strip_numbering_from_h3(raw_h3),
         category |-> Category(FileStem(name), h1, h2)]

\* mutant: a "#" heading leaves the remembered "##" heading in place
RECURSIVE H3ScanKeepsH2(_, _, _, _, _)
H3ScanKeepsH2(lines, i, name, h1_current, h2_current) ==
    IF i > Len(lines) THEN <<>>
    ELSE IF HeadingMatches(lines[i], 1)
         THEN H3ScanKeepsH2(lines, i + 1, name, HeadingText(lines[i], 1), h2_current)
    ELSE IF HeadingMatches(lines[i], 2)
         THEN H3ScanKeepsH2(lines, i + 1, name, h1_current, HeadingText(lines[i], 2))
    ELSE IF HeadingMatches(lines[i], 3)
         THEN <<H3Item(name, h1_current, h2_current, HeadingText(lines[i], 3))>>
              \o H3ScanKeepsH2(lines, i + 1, name, h1_current, h2_current)
    ELSE H3ScanKeepsH2(lines, i + 1, name, h1_current, h2_current)

\* the for loop of extract_h3_items from line i on
RECURSIVE H3Scan(_, _, _, _, _)
H3Scan(lines, i, name, h1_current, h2_current) ==
    IF i > Len(lines) THEN <<>>
    ELSE IF HeadingMatches(lines[i], 1)
         THEN H3Scan(lines, i + 1, name, HeadingText(lines[i], 1), <<>>)
    ELSE IF HeadingMatches(lines[i], 2)
         THEN H3Scan(lines, i + 1, name, h1_current, HeadingText(lines[i], 2))
    ELSE IF HeadingMatches(lines[i], 3)
         THEN <<H3Item(name, h1_current, h2_current, HeadingText(lines[i], 3))>>
              \o H3Scan(lines, i + 1, name, h1_current, h2_current)
    ELSE H3Scan(lines, i + 1, name, h1_current, h2_current)

extract_h3_items(md_body, name) == H3Scan(md_body, 1, name, <<>>, <<>>)

(***************************************************************************)
(* extract_section_context                                                 *)
(***************************************************************************)
\* "\n".join(lines)
RECURSIVE JoinLines(_)
JoinLines(lines) ==
    IF lines = <<>> THEN <<>>
    ELSE IF Len(lines) = 1 THEN lines[1]
    ELSE lines[1] \o <<"\n">> \o JoinLines(Tail(lines))

\* the for loop of extract_section_context from line i on: the lines appended
\* to out, and whether the heading was found
RECURSIVE SectionScan(_, _, _, _)
SectionScan(lines, i, h3_raw, in_block) ==
    IF i > Len(lines) THEN [out |-> <<>>, found |-> FALSE]
    ELSE LET line == lines[i]
             m3 == HeadingMatches(line, 3)
         IN  IF m3 /\ HeadingText(line, 3) = h3_raw
             THEN [SectionScan(lines, i + 1, h3_raw, TRUE) EXCEPT !.found = TRUE]
             ELSE IF in_block /\ (m3 \/ IsH1OrH2(line))
             THEN [out |-> <<>>, found |-> FALSE]
             ELSE IF in_block
             THEN LET rest == SectionScan(lines, i + 1, h3_raw, TRUE)
                  IN  [rest EXCEPT !.out = <<line>> \o rest.out]
             ELSE SectionScan(lines, i + 1, h3_raw, FALSE)

\* "\n\n*(Contexto truncado por limite de tamano)*\n", the sentence one
\* named character
TruncationMark == <<"\n", "\n", "*(Contexto truncado)*", "\n">>

extract_section_context(md_body, h1, h2, h3_raw, max_chars) ==
    LET scan == SectionScan(md_body, 1, h3_raw, FALSE)
        header == <<"#", " ">> \o h1 \o <<"\n", "#", "#", " ">> \o h2
                  \o <<"\n", "#", "#", "#", " ">> \o h3_raw \o <<"\n">>
        chunk == IF scan.found THEN Strip(header \o JoinLines(scan.out))
                 ELSE Strip(header)
    IN  IF Len(chunk) > max_chars
        THEN RStrip(SubSeq(chunk, 1, max_chars)) \o TruncationMark
        ELSE chunk

(***************************************************************************)
(* Generated text and quality_check.  A text is a sequence of lines, a     *)
(* line a sequence of tokens; <<>> is a blank line.                        *)
(***************************************************************************)
\* len(re.findall(r"\w+", token))
WordsIn(tok) ==
    CASE tok \in {"#", "##", "-"} -> 0
      [] tok = "Siguientes pasos" -> 2
      [] OTHER -> 1

RECURSIVE SumWords(_)
SumWords(line) == IF line = <<>> THEN 0 ELSE WordsIn(line[1]) + SumWords(Tail(line))

RECURSIVE approx_word_count(_)
approx_word_count(md) ==
    IF md = <<>> THEN 0 ELSE SumWords(md[1]) + approx_word_count(Tail(md))

\* str.strip() of a text: the blank lines at both ends go
RECURSIVE StripText(_)
StripText(md) ==
    IF md # <<>> /\ md[1] = <<>> THEN StripText(Tail(md))
    ELSE IF md # <<>> /\ md[Len(md)] = <<>> THEN StripText(SubSeq(md, 1, Len(md) - 1))
    ELSE md

\* str.lower() of a token
LowerTok(tok) ==
    CASE tok = "**Meta:**" -> "**meta:**"
      [] tok \in {"Errores", "ERRORES"} -> "errores"
      [] tok = "Checklist" -> "checklist"
      [] tok = "Siguientes pasos" -> "siguientes pasos"
      [] OTHER -> tok

needed == <<"**Meta:**", "Errores", "Checklist", "Siguientes pasos">>

\* k.lower() in text.lower()
TextHas(text, k) ==
    \E i \in 1..Len(text) : \E j \in 1..Len(text[i]) :
        LowerTok(text[i][j]) = LowerTok(k)

\* max(lines.count(ln) for ln in set(lines)) over the non-blank lines
TopRepeat(text) ==
    LET idx == {i \in 1..Len(text) : text[i] # <<>>}
        count(i) == Cardinality({j \in idx : text[j] = text[i]})
    IN  IF idx = {} THEN 1
        ELSE LET m == CHOOSE i \in idx : \A j \in idx : count(j) <= count(i)
             IN  count(m)

\* the reasons of a verdict
ReasonNoH1 == "No empieza con H1 (# ...)"
ReasonShort == "Muy corto"
ReasonMissing == "Faltan secciones"
ReasonRepeat == "Repeticion excesiva de lineas"
ReasonOK == "OK"
ReasonCacheEmpty == "Cache vacio"

\* a reason: its leading words, the measured count, the missing markers,
\* and the reason of a failed repair appended to it
Reason(kind, wc, missing) ==
    [kind |-> kind, wc |-> wc, missing |-> missing, repair |-> <<>>]

\* mutant: the first line is not looked at
quality_check_any_start(md, min_words) ==
    LET text == StripText(md)
        wc == approx_word_count(text)
        missing == {needed[i] : i \in {j \in 1..Len(needed) : ~TextHas(text, needed[j])}}
    IN  IF wc < min_words
        THEN [ok |-> FALSE, reason |-> Reason(ReasonShort, wc, {})]
        ELSE IF missing # {}
        THEN [ok |-> FALSE, reason |-> Reason(ReasonMissing, 0, missing)]
        ELSE IF TopRepeat(text) >= RepeatThreshold
        THEN [ok |-> FALSE, reason |-> Reason(ReasonRepeat, 0, {})]
        ELSE [ok |-> TRUE, reason |-> Reason(ReasonOK, 0, {})]

quality_check(md, min_words) ==
    LET text == StripText(md)
        wc == approx_word_count(text)
        missing == {needed[i] : i \in {j \in 1..Len(needed) : ~TextHas(text, needed[j])}}
    IN  IF ~(text # <<>> /\ Len(text[1]) >= 2 /\ text[1][1] = "#")
        THEN [ok |-> FALSE, reason |-> Reason(ReasonNoH1, 0, {})]
        ELSE IF wc < min_words
        THEN [ok |-> FALSE, reason |-> Reason(ReasonShort, wc, {})]
        ELSE IF missing # {}
        THEN [ok |-> FALSE, reason |-> Reason(ReasonMissing, 0, missing)]
        ELSE IF TopRepeat(text) >= RepeatThreshold
        THEN [ok |-> FALSE, reason |-> Reason(ReasonRepeat, 0, {})]
        ELSE [ok |-> TRUE, reason |-> Reason(ReasonOK, 0, {})]

(***************************************************************************)
(* cache_path: the key string; the 24 hexadecimal digits of its SHA-256    *)
(* name the file, and the model takes the digest to be one-to-one on the   *)
(* key strings.                                                            *)
(***************************************************************************)
KeySep == <<"|", "|">>

cache_path(file_name, title, category, model) ==
    file_name \o KeySep \o title \o KeySep \o category \o KeySep \o model

(***************************************************************************)
(* The posts table of blog.sqlite: a sequence of rows in insertion order   *)
(* (the id of a row is its index).                                         *)
(***************************************************************************)
\* mutant: the SELECT finds nothing
post_exists_never(db, title, category) == FALSE

post_exists(db, title, category) ==
    \E i \in 1..Len(db) : db[i].title = title /\ db[i].category = category

\* mutant: no unique index on (title, category)
UniqueViolationNever(db, title, category) == FALSE

\* idx_posts_title_category would reject the row (sqlite3.IntegrityError)
UniqueViolation(db, title, category) ==
    \E i \in 1..Len(db) : db[i].title = title /\ db[i].category = category

insert_post(db, title, content_md, category) ==
    Append(db, [title |-> title, content |-> content_md, category |-> category])

(***************************************************************************)
(* Inputs: the documents of ./documentos, the texts the generator may      *)
(* return, the cache files found at start, the command lines.              *)
(***************************************************************************)
\* a.md: two "###" headings with the same normalized title and category
DocA == [name |-> <<"a", ".", "m", "d">>,
         lines |-> << <<"#", " ", "H">>,
                      <<"#", "#", " ", "S">>,
                      <<"#", "#", "#", " ", "1", ".", " ", "T">>,
                      <<"x">>,
                      <<"#", "#", "#", " ", "T">> >>]
\* b.md: no "###" heading
DocB == [name |-> <<"b", ".", "m", "d">>,
         lines |-> << <<"#", " ", "H">>, <<"x">> >>]
\* c.md: front matter, and a "###" heading with no "#" or "##" above it
DocC == [name |-> <<"c", ".", "m", "d">>,
         lines |-> << <<"-", "-", "-">>,
                      <<"k", ":", " ", "v">>,
                      <<"-", "-", "-">>,
                      <<"#", "#", "#", " ", "U">>,
                      <<"y">> >>]

\* sorted(DOCS_DIR.glob("*.md")), one value per content of the folder
DocSets == { <<>>, <<DocB, DocC>>, <<DocA, DocB, DocC>> }

\* accepted with --min-words 9 and below
TGood == << <<"#", "T">>, <<"**Meta:**", "m">>, <<"Errores">>, <<"Checklist">>,
            <<"Siguientes pasos">>, <<"w", "w">>, <<>> >>
\* 7 words: accepted with --min-words 7, too short with 9
TMid == << <<"#", "T">>, <<"**Meta:**", "m">>, <<"Errores">>, <<"Checklist">>,
           <<"Siguientes pasos">> >>
\* no Checklist section
TNoSec == << <<"#", "T">>, <<"**Meta:**", "m">>, <<"ERRORES">>, <<"w">>,
             <<"Siguientes pasos">>, <<"w", "w">> >>
\* no leading "# "
TNoH1 == << <<"T">>, <<"**Meta:**", "m">>, <<"Errores">>, <<"Checklist">>,
            <<"Siguientes pasos">>, <<"w", "w", "w">> >>
\* one line six times
TRepeat == << <<"#", "T">>, <<"**Meta:**", "m">>, <<"Errores">>, <<"Checklist">>,
              <<"Siguientes pasos">>, <<"w">>, <<"w">>, <<"w">>, <<"w">>, <<"w">>,
              <<"w">> >>

\* the non-empty texts ollama_call may return
Texts == {TGood, TMid, TNoSec, TNoH1, TRepeat}

Model == <<"m">>

\* mutant: the record is written without the generated text
CacheRecordNoContent(ok, content) ==
    [readable |-> TRUE, ok |-> ok, content |-> <<>>]

\* a cache record: the fields "ok" and "content" (main reads no other
\* field); json.loads fails on an unreadable file
CacheRecord(ok, content) == [readable |-> TRUE, ok |-> ok, content |-> content]
Unreadable == [readable |-> FALSE, ok |-> FALSE, content |-> <<>>]

EmptyCache == [k \in {} |-> Unreadable]

\* the cache file of the only item of c.md
KeyC == cache_path(DocC.name, <<"U">>,
                   Category(<<"c">>, NoH1Label, NoH2Label), Model)

\* .cache_articulos/ at start: empty, or one file left there for c.md: not
\* JSON, no content, or a text recorded as accepted that the gate rejects
InitCaches ==
    {EmptyCache}
    \cup {[k \in {KeyC} |-> r] :
            r \in {Unreadable,
                   CacheRecord(TRUE, <<>>),
                   CacheRecord(TRUE, TNoH1)}}

\* ap.add_argument("--repair", action="store_true", default=True): the value
\* of args.repair with and without the flag
ParseRepair(flag) == IF flag THEN TRUE ELSE TRUE

\* --limit: 0 (no limit, the default), 1 and 2
Limits == {0, 1, 2}
MinWords == {7, 9}

\* args of a run (--model and --ollama-url are left at one value)
ArgSets ==
    {[model |-> Model, dry_run |-> d, limit |-> l, min_words |-> w,
      repair |-> ParseRepair(f)] :
        d \in BOOLEAN, l \in Limits, w \in MinWords, f \in BOOLEAN}

Procs == {1, 2}

(***************************************************************************)
(* State.                                                                  *)
(***************************************************************************)
VARIABLES
    docs,           \* md_files with their contents, in sorted order
    cache,          \* .cache_articulos/: cache key -> record
    posts,          \* rows of the posts table
    unique_index,   \* idx_posts_title_category exists
    runs,           \* runs of main started so far
    pc,             \* where each process is in main
    args,           \* its parsed arguments
    md_idx,         \* position of md_path in md_files
    items,          \* items of the current document
    it_idx,         \* position of it in items
    counters,       \* inserted, skipped, rejected, generated
    content_md,     \* content_md
    verdict,        \* ok, reason
    section_ctx,    \* section_ctx
    attempt,        \* attempt of the running ollama_call
    hist,           \* what main has done for the current item
    ended,          \* how the last run of the process ended
    rerun,          \* the run repeats, with the same arguments, a finished run
    posts_at_start, \* the posts table when this run started
    slept,          \* arguments of time.sleep in the running ollama_call
    fn,             \* the function applied on its own ("" before the call)
    fn_args,        \* its arguments
    fn_result       \* what it returned

shared == <<docs, cache, posts, unique_index, runs>>
locals == <<pc, args, md_idx, items, it_idx, counters, content_md, verdict,
            section_ctx, attempt>>
ghosts == <<hist, ended, rerun, posts_at_start>>
pure == <<fn, fn_args, fn_result>>
vars == <<shared, locals, ghosts, slept, pure>>

NoArgs == [model |-> Model, dry_run |-> FALSE, limit |-> 0, min_words |-> 0,
           repair |-> TRUE]
NoVerdict == [ok |-> FALSE, reason |-> Reason("", 0, {})]
ZeroCounters == [inserted |-> 0, skipped |-> 0, rejected |-> 0, generated |-> 0]
\* nothing done yet for the item
NoHist == [title |-> <<>>, category |-> <<>>, ck |-> <<>>, dedupe |-> FALSE,
           cache |-> "none", ctx |-> FALSE, gen |-> 0, rep |-> 0, first |-> "",
           second |-> "", written |-> FALSE, stored |-> FALSE, end |-> ""]

\* the item is reached: post_exists is evaluated for it
SeenHist(item, key) ==
    [NoHist EXCEPT !.title = item.h3_title, !.category = item.category,
                   !.ck = key, !.dedupe = TRUE]

InitMain(docset, caches) ==
    /\ docs \in docset
    /\ cache \in caches
    /\ posts = <<>>
    /\ unique_index = FALSE
    /\ runs = 0
    /\ pc = [p \in Procs |-> "idle"]
    /\ args = [p \in Procs |-> NoArgs]
    /\ md_idx = [p \in Procs |-> 0]
    /\ items = [p \in Procs |-> <<>>]
    /\ it_idx = [p \in Procs |-> 0]
    /\ counters = [p \in Procs |-> ZeroCounters]
    /\ content_md = [p \in Procs |-> <<>>]
    /\ verdict = [p \in Procs |-> NoVerdict]
    /\ section_ctx = [p \in Procs |-> <<>>]
    /\ attempt = [p \in Procs |-> 0]
    /\ hist = [p \in Procs |-> NoHist]
    /\ ended = [p \in Procs |-> "none"]
    /\ rerun = [p \in Procs |-> FALSE]
    /\ posts_at_start = [p \in Procs |-> <<>>]
    /\ slept = [p \in Procs |-> <<>>]

\* main is run: no function is applied on its own
InitWith(docset, caches) ==
    /\ InitMain(docset, caches)
    /\ fn = ""
    /\ fn_args = <<>>
    /\ fn_result = <<>>

Init == InitWith(DocSets, InitCaches)

\* the item main is handling, its cache file and the body of its document
it(p) == items[p][it_idx[p]]
ck(p) == cache_path(docs[md_idx[p]].name, it(p).h3_title, it(p).category,
                    args[p].model)
body(p) == extract_front_matter(docs[md_idx[p]].lines)

\* mutant: the loop stops one item late
LimitReachedLate(p) == args[p].limit # 0 /\ counters[p].generated > args[p].limit

\* args.limit and generated >= args.limit
LimitReached(p) == args[p].limit # 0 /\ counters[p].generated >= args[p].limit

\* main() starts: ensure_db, the list of documents, the connection
StartRun(p, a) ==
    /\ pc[p] = "idle"
    /\ runs < MaxRuns
    /\ runs' = runs + 1
    /\ unique_index' = TRUE
    /\ args' = [args EXCEPT ![p] = a]
    /\ rerun' = [rerun EXCEPT ![p] = (ended[p] = "tally" /\ a = args[p])]
    /\ posts_at_start' = [posts_at_start EXCEPT ![p] = posts]
    /\ hist' = [hist EXCEPT ![p] = NoHist]
    /\ counters' = [counters EXCEPT ![p] = ZeroCounters]
    /\ slept' = [slept EXCEPT ![p] = <<>>]
    /\ IF docs = <<>>
       THEN /\ ended' = [ended EXCEPT ![p] = "no_files"]
            /\ UNCHANGED <<pc, md_idx>>
       ELSE /\ ended' = [ended EXCEPT ![p] = "running"]
            /\ pc' = [pc EXCEPT ![p] = "doc_loop"]
            /\ md_idx' = [md_idx EXCEPT ![p] = 1]
    /\ UNCHANGED <<docs, cache, posts, items, it_idx, content_md, verdict,
                   section_ctx, attempt, pure>>

\* for md_path in md_files: read the document, extract its items
DocLoop(p) ==
    /\ pc[p] = "doc_loop"
    /\ IF md_idx[p] > Len(docs)
       THEN /\ pc' = [pc EXCEPT ![p] = "tally"]
            /\ UNCHANGED <<md_idx, items, it_idx>>
       ELSE LET found == extract_h3_items(body(p), docs[md_idx[p]].name)
            IN  IF found = <<>>
                THEN /\ md_idx' = [md_idx EXCEPT ![p] = md_idx[p] + 1]
                     /\ UNCHANGED <<pc, items, it_idx>>
                ELSE /\ items' = [items EXCEPT ![p] = found]
                     /\ it_idx' = [it_idx EXCEPT ![p] = 1]
                     /\ pc' = [pc EXCEPT ![p] = "item_loop"]
                     /\ UNCHANGED md_idx
    /\ UNCHANGED <<shared, args, counters, content_md, verdict, section_ctx,
                   attempt, ghosts, slept, pure>>

\* for it in items: the --limit test and the post_exists test; after the
\* last item, or at the limit, the test that ends the loop over documents
ItemLoop(p) ==
    /\ pc[p] = "item_loop"
    /\ IF it_idx[p] > Len(items[p]) \/ LimitReached(p)
       THEN /\ IF LimitReached(p)
               THEN /\ pc' = [pc EXCEPT ![p] = "tally"]
                    /\ UNCHANGED md_idx
               ELSE /\ pc' = [pc EXCEPT ![p] = "doc_loop"]
                    /\ md_idx' = [md_idx EXCEPT ![p] = md_idx[p] + 1]
            /\ UNCHANGED <<it_idx, counters, hist>>
       ELSE IF post_exists(posts, it(p).h3_title, it(p).category)
            THEN /\ counters' = [counters EXCEPT ![p].skipped = @ + 1]
                 /\ it_idx' = [it_idx EXCEPT ![p] = it_idx[p] + 1]
                 /\ hist' = [hist EXCEPT ![p] =
                                [SeenHist(it(p), ck(p)) EXCEPT !.end = "skip"]]
                 /\ UNCHANGED <<pc, md_idx>>
            ELSE /\ pc' = [pc EXCEPT ![p] = "cache_check"]
                 /\ hist' = [hist EXCEPT ![p] = SeenHist(it(p), ck(p))]
                 /\ UNCHANGED <<md_idx, it_idx, counters>>
    /\ UNCHANGED <<shared, args, items, content_md, verdict, section_ctx,
                   attempt, ended, rerun, posts_at_start, slept, pure>>

\* mutant: --dry-run is not looked at
StoreRowAlways(db, dry_run, title, content, category) ==
    insert_post(db, title, content, category)

\* if not args.dry_run: insert_post(conn, it.h3_title, content_md, it.category)
StoreRow(db, dry_run, title, content, category) ==
    IF dry_run THEN db ELSE insert_post(db, title, content, category)

\* the unique index is there and rejects the row
InsertRaises(p) ==
    unique_index /\ UniqueViolation(posts, it(p).h3_title, it(p).category)

\* the item is done: on to the next one (content_md, ok, reason and
\* section_ctx are written again before main reads them: they are cleared)
NextItem(p) ==
    /\ pc' = [pc EXCEPT ![p] = "item_loop"]
    /\ it_idx' = [it_idx EXCEPT ![p] = it_idx[p] + 1]
    /\ content_md' = [content_md EXCEPT ![p] = <<>>]
    /\ verdict' = [verdict EXCEPT ![p] = NoVerdict]
    /\ section_ctx' = [section_ctx EXCEPT ![p] = <<>>]
    /\ attempt' = [attempt EXCEPT ![p] = 0]
    /\ slept' = [slept EXCEPT ![p] = <<>>]

\* an exception leaves main through its finally clause: the run is over
Raise(p, exception) ==
    /\ pc' = [pc EXCEPT ![p] = "idle"]
    /\ ended' = [ended EXCEPT ![p] = exception]
    /\ attempt' = [attempt EXCEPT ![p] = 0]

\* lines 465-469: the context window and the prompt are built and
\* ollama_call is entered
EnterGenerate(p) ==
    /\ section_ctx' = [section_ctx EXCEPT ![p] =
            extract_section_context(body(p), it(p).h1, it(p).h2, it(p).h3_raw,
                                    MaxChars)]
    /\ attempt' = [attempt EXCEPT ![p] = 1]
    /\ slept' = [slept EXCEPT ![p] = <<>>]
    /\ pc' = [pc EXCEPT ![p] = "generate"]

\* mutant: the verdict stored in the record is trusted
CacheVerdictStoredOk(rec, min_words) ==
    [content |-> StripText(rec.content),
     verdict |-> [ok |-> rec.ok, reason |-> Reason(ReasonOK, 0, {})]]

\* mutant: non-empty cached content is taken without the quality check
CacheVerdictUnchecked(rec, min_words) ==
    [content |-> StripText(rec.content),
     verdict |-> [ok |-> StripText(rec.content) # <<>>,
                  reason |-> Reason(ReasonOK, 0, {})]]

\* mutant: the cache is never used
CacheVerdictIgnored(rec, min_words) ==
    [content |-> StripText(rec.content),
     verdict |-> [ok |-> FALSE, reason |-> Reason(ReasonCacheEmpty, 0, {})]]

\* lines 450-452: what main makes of a readable cache record
CacheVerdict(rec, min_words) ==
    LET content == StripText(rec.content)
    IN  [content |-> content,
         verdict |-> IF content # <<>> THEN quality_check(content, min_words)
                     ELSE [ok |-> FALSE, reason |-> Reason(ReasonCacheEmpty, 0, {})]]

\* ck.is_file() and the try block up to the verdict
CacheCheck(p) ==
    /\ pc[p] = "cache_check"
    /\ IF ck(p) \in DOMAIN cache /\ cache[ck(p)].readable
       THEN LET c == CacheVerdict(cache[ck(p)], args[p].min_words)
            IN  /\ content_md' = [content_md EXCEPT ![p] = c.content]
                /\ verdict' = [verdict EXCEPT ![p] = c.verdict]
                /\ IF c.verdict.ok
                   THEN /\ pc' = [pc EXCEPT ![p] = "cache_insert"]
                        /\ hist' = [hist EXCEPT ![p].cache = "hit_ok"]
                        /\ UNCHANGED <<section_ctx, attempt, slept>>
                   ELSE /\ EnterGenerate(p)
                        /\ hist' = [hist EXCEPT ![p].cache = "hit_bad",
                                                ![p].ctx = TRUE, ![p].gen = @ + 1]
       ELSE /\ EnterGenerate(p)
            /\ hist' = [hist EXCEPT
                           ![p].cache = IF ck(p) \in DOMAIN cache THEN "unreadable"
                                        ELSE "miss",
                           ![p].ctx = TRUE, ![p].gen = @ + 1]
            /\ UNCHANGED <<content_md, verdict>>
    /\ UNCHANGED <<shared, args, md_idx, items, it_idx, counters, ended, rerun,
                   posts_at_start, pure>>

\* lines 454-458: the cached content goes to the table; an exception of
\* insert_post is swallowed by "except Exception: pass" and the item is
\* generated
CacheInsert(p) ==
    /\ pc[p] = "cache_insert"
    /\ IF ~args[p].dry_run /\ InsertRaises(p)
       THEN /\ EnterGenerate(p)
            /\ hist' = [hist EXCEPT ![p].ctx = TRUE, ![p].gen = @ + 1]
            /\ UNCHANGED <<posts, it_idx, counters, content_md, verdict>>
       ELSE /\ posts' = StoreRow(posts, args[p].dry_run, it(p).h3_title,
                                     content_md[p], it(p).category)
            /\ counters' = [counters EXCEPT ![p].inserted = @ + 1]
            /\ hist' = [hist EXCEPT ![p].end = "cache_db",
                                    ![p].stored = ~args[p].dry_run]
            /\ NextItem(p)
    /\ UNCHANGED <<docs, cache, unique_index, runs, args, md_idx, items, ended,
                   rerun, posts_at_start, pure>>

(***************************************************************************)
(* ollama_call: one request per attempt.  A response is a text (blank      *)
(* when the service answers with nothing) or a transport error.            *)
(***************************************************************************)
Responses ==
    {[error |-> FALSE, text |-> t] : t \in Texts \cup {<< <<>> >>}}
    \cup {[error |-> TRUE, text |-> <<>>]}

\* text of the attempt, stripped; <<>> when the attempt raises
AttemptText(r) == IF r.error THEN <<>> ELSE StripText(r.text)

\* mutant: one attempt more
AttemptsLeftOneMore(n) == n <= RETRIES

\* for attempt in range(1, RETRIES + 1): another attempt is left
AttemptsLeft(n) == n < RETRIES

\* mutant: no repair at all
NeedsRepairNever(v, repair) == FALSE

\* mutant: every rejection is repaired
NeedsRepairAlways(v, repair) == ~v.ok /\ repair

\* (not ok) and args.repair and ("Muy corto" in reason or "Faltan secciones" in reason)
NeedsRepair(v, repair) ==
    /\ ~v.ok
    /\ repair
    /\ v.reason.kind \in {ReasonShort, ReasonMissing}

\* time.sleep(1.0 * attempt)
Delay(n) == n

\* an attempt of ollama_call fails: sleep, then try again or raise
\* RuntimeError, which nothing in main catches
AttemptFails(p) ==
    /\ slept' = [slept EXCEPT ![p] = Append(@, Delay(attempt[p]))]
    /\ IF AttemptsLeft(attempt[p])
       THEN /\ attempt' = [attempt EXCEPT ![p] = attempt[p] + 1]
            /\ UNCHANGED <<pc, ended>>
       ELSE Raise(p, "RuntimeError")
    /\ UNCHANGED <<shared, args, md_idx, items, it_idx, counters, content_md,
                   verdict, section_ctx, hist, rerun, posts_at_start, pure>>

\* lines 469-477: an attempt of the generation call; with a text, the
\* counter, the quality check and the decision to repair
Generate(p, r) ==
    /\ pc[p] = "generate"
    /\ IF AttemptText(r) = <<>>
       THEN AttemptFails(p)
       ELSE LET v == quality_check(AttemptText(r), args[p].min_words)
            IN  /\ content_md' = [content_md EXCEPT ![p] = AttemptText(r)]
                /\ counters' = [counters EXCEPT ![p].generated = @ + 1]
                /\ verdict' = [verdict EXCEPT ![p] = v]
                /\ IF NeedsRepair(v, args[p].repair)
                   THEN /\ pc' = [pc EXCEPT ![p] = "repair"]
                        /\ attempt' = [attempt EXCEPT ![p] = 1]
                        /\ hist' = [hist EXCEPT ![p].first = v.reason.kind,
                                                ![p].rep = @ + 1]
                   ELSE /\ pc' = [pc EXCEPT ![p] = "cache_write"]
                        /\ attempt' = [attempt EXCEPT ![p] = 0]
                        /\ hist' = [hist EXCEPT ![p].first = v.reason.kind]
                /\ slept' = [slept EXCEPT ![p] = <<>>]
                /\ UNCHANGED <<shared, args, md_idx, items, it_idx, section_ctx,
                               ended, rerun, posts_at_start, pure>>

\* lines 478-484: an attempt of the repair call; with a text, the second
\* quality check
Repair(p, r) ==
    /\ pc[p] = "repair"
    /\ IF AttemptText(r) = <<>>
       THEN AttemptFails(p)
       ELSE LET v2 == quality_check(AttemptText(r), args[p].min_words)
            IN  /\ IF v2.ok
                   THEN /\ content_md' = [content_md EXCEPT ![p] = AttemptText(r)]
                        /\ verdict' = [verdict EXCEPT ![p] = v2]
                   ELSE /\ verdict' = [verdict EXCEPT
                                          ![p].reason.repair = <<v2.reason.kind>>]
                        /\ UNCHANGED content_md
                /\ pc' = [pc EXCEPT ![p] = "cache_write"]
                /\ attempt' = [attempt EXCEPT ![p] = 0]
                /\ hist' = [hist EXCEPT ![p].second = v2.reason.kind]
                /\ slept' = [slept EXCEPT ![p] = <<>>]
                /\ UNCHANGED <<shared, args, md_idx, items, it_idx, counters,
                               section_ctx, ended, rerun, posts_at_start, pure>>

\* lines 486-506: the record is written; a rejected item ends here
CacheWrite(p) ==
    /\ pc[p] = "cache_write"
    /\ cache' = (ck(p) :> CacheRecord(verdict[p].ok, content_md[p])) @@ cache
    /\ IF ~verdict[p].ok
       THEN /\ counters' = [counters EXCEPT ![p].rejected = @ + 1]
            /\ hist' = [hist EXCEPT ![p].written = TRUE, ![p].end = "rejected"]
            /\ NextItem(p)
       ELSE /\ pc' = [pc EXCEPT ![p] = "persist"]
            /\ hist' = [hist EXCEPT ![p].written = TRUE]
            /\ UNCHANGED <<it_idx, counters, content_md, verdict, section_ctx,
                           attempt, slept>>
    /\ UNCHANGED <<docs, posts, unique_index, runs, args, md_idx, items, ended,
                   rerun, posts_at_start, pure>>

\* lines 508-512: the accepted content goes to the table; an exception of
\* insert_post is caught nowhere
Persist(p) ==
    /\ pc[p] = "persist"
    /\ IF ~args[p].dry_run /\ InsertRaises(p)
       THEN /\ Raise(p, "IntegrityError")
            /\ UNCHANGED <<posts, it_idx, counters, content_md, verdict,
                           section_ctx, hist, slept>>
       ELSE /\ posts' = StoreRow(posts, args[p].dry_run, it(p).h3_title,
                                     content_md[p], it(p).category)
            /\ counters' = [counters EXCEPT ![p].inserted = @ + 1]
            /\ hist' = [hist EXCEPT ![p].end = "inserted",
                                    ![p].stored = ~args[p].dry_run]
            /\ NextItem(p)
            /\ UNCHANGED ended
    /\ UNCHANGED <<docs, cache, unique_index, runs, args, md_idx, items, rerun,
                   posts_at_start, pure>>

\* lines 517-526: the counters are printed and the connection is closed
Tally(p) ==
    /\ pc[p] = "tally"
    /\ pc' = [pc EXCEPT ![p] = "idle"]
    /\ ended' = [ended EXCEPT ![p] = "tally"]
    /\ UNCHANGED <<shared, args, md_idx, items, it_idx, counters, content_md,
                   verdict, section_ctx, attempt, hist, rerun, posts_at_start,
                   slept, pure>>

\* a step of process p, its command lines drawn from argsets and the
\* answers of the service from responses
Step(p, argsets, responses) ==
    \/ \E a \in argsets : StartRun(p, a)
    \/ DocLoop(p)
    \/ ItemLoop(p)
    \/ CacheCheck(p)
    \/ CacheInsert(p)
    \/ \E r \in responses : Generate(p, r)
    \/ \E r \in responses : Repair(p, r)
    \/ CacheWrite(p)
    \/ Persist(p)
    \/ Tally(p)

\* one process: the runs of main follow one another
Next == Step(1, ArgSets, Responses)

Spec == Init /\ [][Next]_vars

\* two processes at once on one blog.sqlite and one cache directory, over
\* a.md and c.md, both writing to the table
ConcurrentArgs == {a \in ArgSets : ~a.dry_run /\ a.limit = 0 /\ a.min_words = 9}
ConcurrentResponses ==
    {r \in Responses : r.error \/ r.text \in {TGood, TMid}}

InitConcurrent == InitWith({<<DocA, DocC>>}, {EmptyCache})

NextConcurrent == \E p \in Procs : Step(p, ConcurrentArgs, ConcurrentResponses)

SpecConcurrent == InitConcurrent /\ [][NextConcurrent]_vars

(***************************************************************************)
(* Properties.                                                             *)
(***************************************************************************)
\* every leaf item of every document, as main finds them
LeafItems ==
    UNION {LET found == extract_h3_items(extract_front_matter(docs[i].lines),
                                         docs[i].name)
           IN  {found[j] : j \in 1..Len(found)} : i \in 1..Len(docs)}

\* every leaf item of the documents has its row in db
AllItemsStored(db) ==
    \A item \in LeafItems :
        \E i \in 1..Len(db) :
            db[i].title = item.h3_title /\ db[i].category = item.category

\* C1: no two rows of the posts table have the same (title, category)
\* pair, in every state runs of main can reach (checked with two processes
\* at once, which includes runs one after the other).
C1_UniqueTitleCategory ==
    \A i, j \in 1..Len(posts) :
        i # j => ~(posts[i].title = posts[j].title
                   /\ posts[i].category = posts[j].category)

\* the second "###" of a.md, with the title and category of the first, was
\* reached with the first one in the table, and skipped
C1_Witness ==
    \E p \in Procs :
        /\ md_idx[p] = 1 /\ it_idx[p] = 3 /\ hist[p].end = "skip"
        /\ items[p][1].h3_raw # items[p][2].h3_raw
        /\ items[p][1].h3_title = items[p][2].h3_title
        /\ items[p][1].category = items[p][2].category
        /\ post_exists(posts, items[p][2].h3_title, items[p][2].category)

\* C2 as stated: a run that repeats a finished run, with the same arguments,
\* over the documents, cache and table that run left, inserts no post.
C2_SecondRunInsertsNothing ==
    \A p \in Procs : rerun[p] => posts = posts_at_start[p]

\* C2 amended: when the finished run left every leaf item of the documents
\* in the table, the run that repeats it inserts no post, calls the generator
\* for no item, and every item it handles ends as an already-exists skip;
\* at its tally every leaf item is counted as skipped.
C2_SecondRunAfterAllStored ==
    \A p \in Procs :
        (rerun[p] /\ AllItemsStored(posts_at_start[p])) =>
            /\ posts = posts_at_start[p]
            /\ hist[p].end \in {"", "skip"}
            /\ hist[p].gen = 0 /\ hist[p].cache = "none"
            /\ counters[p].inserted = 0 /\ counters[p].generated = 0
            /\ ended[p] \in {"running", "tally"}
            /\ ended[p] = "tally" =>
                   /\ md_idx[p] = Len(docs) + 1
                   /\ counters[p].skipped = Cardinality(LeafItems)

\* the repeated run has ended, all its items skipped
C2_Witness ==
    \E p \in Procs :
        /\ rerun[p] /\ AllItemsStored(posts_at_start[p])
        /\ ended[p] = "tally" /\ counters[p].skipped >= 2

\* C3: per leaf item, at most one generation call and at most one repair
\* call; a first text rejected as too short gets its repair call; once the
\* repaired text is rejected too, no generator call is running or follows,
\* and the item ends rejected.
C3_BoundedRepair ==
    \A p \in Procs :
        /\ hist[p].gen <= 1 /\ hist[p].rep <= 1
        /\ hist[p].first = ReasonShort => hist[p].rep = 1
        /\ hist[p].second \notin {"", ReasonOK} =>
               /\ pc[p] \notin {"generate", "repair", "persist", "cache_insert"}
               /\ hist[p].end \in {"", "rejected"}
               /\ ~hist[p].stored

\* too short, repaired once, rejected again, item rejected
C3_Witness ==
    \E p \in Procs :
        /\ hist[p].first = ReasonShort /\ hist[p].rep = 1
        /\ hist[p].second \notin {"", ReasonOK}
        /\ hist[p].end = "rejected"

\* C4 as stated: a generation call that fails after RETRIES attempts
\* abandons the leaf item only; no run of main ends with the RuntimeError of
\* ollama_call.
C4_GenerationFailureNotFatal ==
    \A p \in Procs : ended[p] # "RuntimeError"

\* C5 as stated: a run that found documents and is over has reported the
\* final tally.
C5_RunEndsWithTally ==
    \A p \in Procs :
        (docs # <<>> /\ pc[p] = "idle" /\ ended[p] # "none") => ended[p] = "tally"

\* the cache file of the item exists, is readable and its content passes
\* quality_check with the min_words of the run
ValidHit(p) ==
    /\ ck(p) \in DOMAIN cache
    /\ cache[ck(p)].readable
    /\ quality_check(StripText(cache[ck(p)].content), args[p].min_words).ok

\* the row main inserts for the item from content_md
RowOf(p) ==
    [title |-> it(p).h3_title, content |-> content_md[p],
     category |-> it(p).category]

\* C6: every step that adds a row to the posts table is the insert of a
\* process at its cache-hit or generation insert, and the content of the row
\* passes quality_check with the min_words of that run; the step that writes
\* the cache record of an item whose final verdict is rejected writes it
\* with ok = false, counts the item as rejected, inserts nothing and goes on
\* to the next item.
C6_InsertOnlyAccepted ==
    [][/\ posts' # posts =>
            \E p \in Procs :
                /\ pc[p] \in {"cache_insert", "persist"}
                /\ posts' = Append(posts, RowOf(p))
                /\ quality_check(content_md[p], args[p].min_words).ok
       /\ \A p \in Procs :
            (pc[p] = "cache_write" /\ pc'[p] # "cache_write" /\ ~verdict[p].ok) =>
                /\ cache'[ck(p)].readable /\ ~cache'[ck(p)].ok
                /\ counters'[p].rejected = counters[p].rejected + 1
                /\ counters'[p].inserted = counters[p].inserted
                /\ posts' = posts
                /\ pc'[p] = "item_loop" /\ it_idx'[p] = it_idx[p] + 1]_vars

\* an item was rejected after a repair, with rows in the table
C6_Witness ==
    \E p \in Procs :
        /\ hist[p].end = "rejected" /\ hist[p].rep = 1 /\ counters[p].rejected >= 1
        /\ ~cache[hist[p].ck].ok
        /\ Len(posts) >= 1

\* C7: from the cache lookup of an item with a valid cache hit, main goes to
\* the insert of the cached content with no context window and no generator
\* call; the insert step stores that content (nothing under --dry-run),
\* counts the item as inserted and ends the item, still with no generator
\* call.
C7_ValidHitSkipsGenerator ==
    [][\A p \in Procs :
        /\ (pc[p] = "cache_check" /\ pc'[p] # "cache_check" /\ ValidHit(p)) =>
               /\ pc'[p] = "cache_insert"
               /\ content_md'[p] = StripText(cache[ck(p)].content)
               /\ hist'[p].gen = 0 /\ hist'[p].rep = 0 /\ ~hist'[p].ctx
        /\ (pc[p] = "cache_insert" /\ pc'[p] # "cache_insert") =>
               /\ ValidHit(p)
               /\ pc'[p] = "item_loop"
               /\ hist'[p].end = "cache_db"
               /\ hist'[p].gen = 0 /\ hist'[p].rep = 0 /\ ~hist'[p].ctx
               /\ counters'[p].generated = counters[p].generated
               /\ posts' = IF args[p].dry_run THEN posts
                           ELSE Append(posts, RowOf(p))]_vars

\* cached content went to the table with no generator call
C7_Witness ==
    \E p \in Procs :
        /\ hist[p].end = "cache_db" /\ hist[p].stored
        /\ hist[p].gen = 0 /\ hist[p].rep = 0
        /\ posts[Len(posts)].content = StripText(cache[hist[p].ck].content)

\* C8: from the cache lookup of an item whose cache file exists but is
\* unreadable, empty or fails quality_check with the min_words of the run
\* (whatever "ok" it stores), main does what it does on a miss: it builds
\* the context window of the item and enters the generation call, and
\* changes neither table, cache nor counters.
C8_InvalidHitRegenerates ==
    [][\A p \in Procs :
        (/\ pc[p] = "cache_check" /\ pc'[p] # "cache_check"
         /\ ck(p) \in DOMAIN cache /\ ~ValidHit(p)) =>
            /\ pc'[p] = "generate" /\ attempt'[p] = 1
            /\ section_ctx'[p] =
                   extract_section_context(body(p), it(p).h1, it(p).h2,
                                           it(p).h3_raw, MaxChars)
            /\ hist'[p].ctx /\ hist'[p].gen = 1
            /\ posts' = posts /\ cache' = cache /\ counters' = counters]_vars

\* a record a --dry-run run with --min-words 7 stored as accepted fails the
\* check with --min-words 9, and the generation call is entered
C8_Witness ==
    \E p \in Procs :
        /\ pc[p] = "generate" /\ hist[p].cache = "hit_bad"
        /\ cache[ck(p)].ok /\ cache[ck(p)].content = TMid
        /\ args[p].min_words = 9
        /\ section_ctx[p] # <<>>

C10_RepairIffEligible ==
    \A p \in Procs :
        /\ hist[p].rep >= 1 <=>
               (hist[p].first \in {ReasonShort, ReasonMissing} /\ args[p].repair)
        /\ hist[p].first \in {ReasonNoH1, ReasonRepeat} =>
               /\ hist[p].rep = 0 /\ hist[p].second = ""
               /\ pc[p] # "repair"
               /\ hist[p].end \in {"", "rejected"}

\* missing sections: the repair call is running
C10_Witness ==
    \E p \in Procs :
        /\ pc[p] = "repair" /\ hist[p].first = ReasonMissing /\ hist[p].rep = 1
        /\ verdict[p].reason.missing = {"Checklist"}

(***************************************************************************)
(* Functions applied on their own.  fn names the function, fn_args holds   *)
(* its arguments and fn_result is <<>> until it returns, then <<value>>.   *)
(* main stays where construction left it.                                  *)
(***************************************************************************)
Returned == fn_result # <<>>
Result == fn_result[1]

InitCall(name, argset) ==
    /\ InitMain({<<>>}, {EmptyCache})
    /\ fn = name
    /\ fn_args \in argset
    /\ fn_result = <<>>

\* the function named name returns value
Call(name, value) ==
    /\ fn = name
    /\ ~Returned
    /\ fn_result' = <<value>>
    /\ UNCHANGED <<shared, locals, ghosts, slept, fn, fn_args>>

(***************************************************************************)
(* cache_path over the components main passes to it: md_path.name,         *)
(* it.h3_title, it.category and args.model.                                *)
(***************************************************************************)
KeyNames == {<<"a", ".", "m", "d">>, <<"b", ".", "m", "d">>}
KeyH2s == {<<"S">>,
           <<"S", "|", "|", "a", ",", " ", "H", ",", " ", "S">>}
KeyTitles == {<<"T">>,
              <<"T", "|", "|", "a", ",", " ", "H", ",", " ", "S">>}
KeyModels == {<<"m">>, <<"n">>}

\* the (file name, title, category, model) of a leaf item under "# H"
KeyTuples ==
    {[name |-> n, title |-> t, category |-> Category(FileStem(n), <<"H">>, h2),
      model |-> m] :
        n \in KeyNames, t \in KeyTitles, h2 \in KeyH2s, m \in KeyModels}

CachePathOf(k) == cache_path(k.name, k.title, k.category, k.model)

InitCachePath == InitCall("cache_path", KeyTuples \X KeyTuples)

\* cache_path is computed for two leaf items
CachePathCall ==
    Call("cache_path", <<CachePathOf(fn_args[1]), CachePathOf(fn_args[2])>>)

NextCachePath == CachePathCall

SpecCachePath == InitCachePath /\ [][NextCachePath]_vars

\* C11: two (file name, title, category, model) tuples that differ in a
\* component get different cache keys, also when a title or a category
\* holds "||"; equal tuples get the same key.
C11_CachePathInjective ==
    (fn = "cache_path" /\ Returned)
        => ((Result[1] = Result[2]) <=> (fn_args[1] = fn_args[2]))


(***************************************************************************)
(* quality_check over texts written for a leaf item whose title is known   *)
(* to main (it.h3_title) and not passed to quality_check.                  *)
(***************************************************************************)
QcTitles == {"T", "U"}
QcFirstLines == {<<"#", "T">>, <<"#", "U">>, <<"T">>, <<"##", "T">>, <<"#">>}
QcBodies == {Tail(t) : t \in Texts}

QcInputs ==
    {[md |-> <<first>> \o rest, min_words |-> w, title |-> t] :
        first \in QcFirstLines, rest \in QcBodies, w \in MinWords, t \in QcTitles}

InitQuality == InitCall("quality_check", QcInputs)

QualityCheckCall ==
    Call("quality_check", quality_check(fn_args.md, fn_args.min_words))

NextQuality == QualityCheckCall

SpecQuality == InitQuality /\ [][NextQuality]_vars

\* the first line of the text is "# " and the title of the item
TitledH1(md, title) == md # <<>> /\ md[1] = <<"#", title>>
\* the text starts with "# "
StartsH1(md) == md # <<>> /\ Len(md[1]) >= 2 /\ md[1][1] = "#"

\* C12 as stated: a text whose first line is not "# " followed by the
\* title of the leaf item is rejected for a missing title heading.
C12_RejectsOtherTitle ==
    (fn = "quality_check" /\ Returned /\ ~TitledH1(fn_args.md, fn_args.title))
        => (~Result.ok /\ Result.reason.kind = ReasonNoH1)

\* C12 amended: quality_check accepts a text only if it starts with "# ";
\* a text that does not is rejected with the reason "No empieza con H1",
\* and what follows "# " is not compared with the title of the item.
C12_RejectsNoH1 ==
    (fn = "quality_check" /\ Returned)
        => /\ Result.ok => StartsH1(fn_args.md)
           /\ ~StartsH1(fn_args.md)
                => (~Result.ok /\ Result.reason.kind = ReasonNoH1)
           /\ Result = quality_check(
                  <<IF StartsH1(fn_args.md) THEN <<"#", fn_args.title>>
                    ELSE fn_args.md[1]>> \o Tail(fn_args.md),
                  fn_args.min_words)

\* a text headed by another title is accepted, and one without "# " rejected
C12_Witness ==
    /\ fn = "quality_check" /\ Returned
    /\ Result.ok
    /\ StartsH1(fn_args.md)
    /\ ~TitledH1(fn_args.md, fn_args.title)


(***************************************************************************)
(* extract_h3_items and extract_section_context over the bodies of at most *)
(* MaxLines lines drawn from OutlineLines.                                 *)
(***************************************************************************)
MaxLines == 4

OutlineLines ==
    { <<"#", " ", "A">>,
      <<"#", " ", " ">>,                      \* "#" and blanks only
      <<"#", "#", " ", "S">>,
      <<" ", "#", "#", " ", "R", " ">>,
      <<"#", "#", "#", " ", "X">>,
      <<"#", "#", "#", " ", "1", ".", " ", "Y">>,
      <<"x">>,
      <<>> }

RECURSIVE Bodies(_)
Bodies(n) ==
    IF n = 0 THEN {<<>>}
    ELSE LET shorter == Bodies(n - 1)
         IN  shorter \cup {Append(b, l) : b \in {c \in shorter : Len(c) = n - 1},
                                          l \in OutlineLines}

OutlineNames == {<<"a", ".", "m", "d">>}

OutlineInputs == {[lines |-> b, name |-> n] : b \in Bodies(MaxLines), n \in OutlineNames}

InitItems == InitCall("extract_h3_items", OutlineInputs)

ExtractItemsCall ==
    Call("extract_h3_items", extract_h3_items(fn_args.lines, fn_args.name))

NextItems == ExtractItemsCall

SpecItems == InitItems /\ [][NextItems]_vars

\* positions of the headings of level n, and the last of them in from+1..to-1
\* (0 when there is none)
HeadingsAt(lines, n) == {i \in 1..Len(lines) : HeadingMatches(lines[i], n)}
LastHeading(lines, n, from, to) ==
    LET found == {j \in HeadingsAt(lines, n) : from < j /\ j < to}
    IN  IF found = {} THEN 0 ELSE CHOOSE j \in found : \A k \in found : k <= j
\* position of the k-th "###" heading
NthH3(lines, k) ==
    CHOOSE i \in HeadingsAt(lines, 3) :
        Cardinality({j \in HeadingsAt(lines, 3) : j <= i}) = k
\* text of the heading at position j, or the label when there is no
\* heading (j = 0) or its text is blank
TextOrLabel(lines, j, n, label) ==
    IF j = 0 \/ HeadingText(lines[j], n) = <<>> THEN label
    ELSE HeadingText(lines[j], n)

\* C13: the items of extract_h3_items are the "###" headings in order; each
\* has as h1 the text of the last "#" heading before it and as h2 the text
\* of the last "##" heading between that "#" heading and it, the labels
\* "Sin seccion principal" and "Sin subseccion" standing in when there is
\* no such heading (or its text is blank); category is "<stem>, <h1>, <h2>".
C13_ItemsCarryLatestHeadings ==
    (fn = "extract_h3_items" /\ Returned) =>
        LET lines == fn_args.lines
            stem == SubSeq(fn_args.name, 1, Len(fn_args.name) - 3)
        IN  /\ Len(Result) = Cardinality(HeadingsAt(lines, 3))
            /\ \A k \in 1..Len(Result) :
                 LET i == NthH3(lines, k)
                     j1 == LastHeading(lines, 1, 0, i)
                     j2 == LastHeading(lines, 2, j1, i)
                     h1 == TextOrLabel(lines, j1, 1, NoH1Label)
                     h2 == TextOrLabel(lines, j2, 2, NoH2Label)
                 IN  /\ Result[k].h1 = h1
                     /\ Result[k].h2 = h2
                     /\ Result[k].h3_raw = HeadingText(lines[i], 3)
                     /\ Result[k].category
                            = stem \o <<",", " ">> \o h1 \o <<",", " ">> \o h2

\* "## S", "# A", "### X": the item under "# A" has the label as h2
C13_Witness ==
    /\ fn = "extract_h3_items" /\ Returned
    /\ fn_args.lines = << <<"#", "#", " ", "S">>, <<"#", " ", "A">>,
                          <<"#", "#", "#", " ", "X">> >>
    /\ Len(Result) = 1
    /\ Result[1].h1 = <<"A">>
    /\ Result[1].h2 = NoH2Label
    /\ Result[1].category
         = <<"a", ",", " ", "A", ",", " ">> \o NoH2Label


\* lines 465-466 for every item of the body: section_ctx of each
ContextsOf(lines, name) ==
    LET found == extract_h3_items(lines, name)
    IN  [k \in 1..Len(found) |->
            extract_section_context(lines, found[k].h1, found[k].h2,
                                    found[k].h3_raw, MaxChars)]

InitContext == InitCall("extract_section_context", OutlineInputs)

SectionContextCall ==
    Call("extract_section_context", ContextsOf(fn_args.lines, fn_args.name))

NextContext == SectionContextCall

SpecContext == InitContext /\ [][NextContext]_vars

\* position of the first heading of level 1, 2 or 3 after line i, or the
\* position after the last line
NextHeading(lines, i) ==
    LET later == {j \in i + 1..Len(lines) :
                    \E n \in 1..3 : HeadingMatches(lines[j], n)}
    IN  IF later = {} THEN Len(lines) + 1
        ELSE CHOOSE j \in later : \A k \in later : j <= k

\* "# h1", "## h2", "### h3_raw" and the lines, joined by newlines
TrailAndLines(item, section) ==
    <<"#", " ">> \o item.h1 \o <<"\n", "#", "#", " ">> \o item.h2
        \o <<"\n", "#", "#", "#", " ">> \o item.h3_raw \o <<"\n">>
        \o JoinLines(section)

\* C14: for every item of a body, also one whose raw "###" text occurs more
\* than once, extract_section_context returns the heading trail followed
\* by exactly the lines between the item's own "###" line and the next
\* "#", "##" or "###" line (compared up to blanks at the two ends).
C14_ContextIsOwnSection ==
    (fn = "extract_section_context" /\ Returned) =>
        LET lines == fn_args.lines
            found == extract_h3_items(lines, fn_args.name)
        IN  \A k \in 1..Len(found) :
                LET i == NthH3(lines, k)
                    own == SubSeq(lines, i + 1, NextHeading(lines, i) - 1)
                IN  Result[k] = Strip(TrailAndLines(found[k], own))


(***************************************************************************)
(* strip_numbering_from_h3 over the raw headings made of at most MaxPieces *)
(* pieces: raw_h3 is stripped and not empty (line 185 and the "(.+?)" of   *)
(* the heading pattern).                                                   *)
(***************************************************************************)
MaxPieces == 3

HeadingPieces ==
    { <<"t", "e", "m", "a">>, <<"T", "e", "m", "a">>, <<"r", "i", "o">>,
      <<"x">>, <<"1">>, <<".">>, <<" ">>, <<"-">>, <<"EMDASH">> }

RECURSIVE PieceStrings(_)
PieceStrings(n) ==
    IF n = 0 THEN {<<>>}
    ELSE LET shorter == PieceStrings(n - 1)
         IN  shorter \cup {s \o piece : s \in shorter, piece \in HeadingPieces}

RawHeadings == {s \in PieceStrings(MaxPieces) : s # <<>> /\ Strip(s) = s}

InitStrip == InitCall("strip_numbering_from_h3", RawHeadings)

StripNumberingCall ==
    Call("strip_numbering_from_h3", strip_numbering_from_h3(fn_args))

NextStrip == StripNumberingCall

SpecStrip == InitStrip /\ [][NextStrip]_vars

\* a letter of a word (the headings hold letters, digits, blanks and
\* punctuation)
IsLetter(c) == c \notin Whitespace \cup Digits \cup NumberPunct

\* the heading starts with a label word that is a word of its own
HasLabel(raw) ==
    \E i \in 1..Len(LabelWords) :
        /\ StartsWith(Lower(raw), LabelWords[i])
        /\ Len(raw) > Len(LabelWords[i]) => ~IsLetter(raw[Len(LabelWords[i]) + 1])

\* the heading has no label word, no number and no dash at its start (and
\* no run of blanks for the function to collapse)
NoPrefix(raw) ==
    /\ ~HasLabel(raw)
    /\ raw[1] \notin Digits \cup Dashes
    /\ CollapseWs(raw) = raw

\* C15: a raw heading with no ordinal or label prefix, such as one whose
\* first word only begins with the letters of a label word, is returned
\* unchanged, and no heading is turned into the empty string.
C15_NoPrefixUnchanged ==
    (fn = "strip_numbering_from_h3" /\ Returned) =>
        /\ NoPrefix(fn_args) => Result = fn_args
        /\ Result # <<>>


(***************************************************************************)
(* The run of main, continued.                                             *)
(***************************************************************************)
\* C16: in a run with --dry-run no step changes the posts table, on the
\* cache path and on the generation path alike, and the rest goes on: the
\* cache is looked up, the generator is called and checked, and the cache
\* record of every generated text is written.
C16_DryRunLeavesPosts ==
    [][\A p \in Procs :
         (args[p].dry_run /\ pc[p] # "idle")
           => /\ posts' = posts
              /\ pc[p] = "cache_check"
                   => IF ValidHit(p) THEN pc'[p] = "cache_insert"
                      ELSE pc'[p] = "generate" /\ hist'[p].gen = 1
              /\ pc[p] = "cache_write"
                   => /\ ck(p) \in DOMAIN cache'
                      /\ cache'[ck(p)] = CacheRecord(verdict[p].ok, content_md[p])
              /\ pc[p] \in {"cache_insert", "persist"}
                   => /\ counters'[p].inserted = counters[p].inserted + 1
                      /\ pc'[p] = "item_loop"]_vars

\* a dry run has generated and cached the first item of a.md, taken the
\* second from the cache, counted both as inserted, and the table is as
\* it was
C16_Witness ==
    /\ args[1].dry_run
    /\ ended[1] = "running"
    /\ hist[1].end = "cache_db"
    /\ counters[1].generated >= 1
    /\ counters[1].inserted >= 2
    /\ DOMAIN cache # {}
    /\ posts = posts_at_start[1]


\* C17: two runs at once; when the other run has stored the pair between
\* this run's post_exists test and its insert, the insert's conflict on
\* the unique index makes this run count the item as skipped (not as
\* rejected) and go on with its next item, without ending the run.
C17_ConflictIsSkip ==
    [][\A p \in Procs :
         (/\ pc[p] \in {"cache_insert", "persist"}
          /\ ~args[p].dry_run
          /\ InsertRaises(p)
          /\ pc'[p] # pc[p])
           => /\ counters'[p] = [counters[p] EXCEPT !.skipped = @ + 1]
              /\ pc'[p] = "item_loop"
              /\ it_idx'[p] = it_idx[p] + 1
              /\ ended'[p] = "running"]_vars


(***************************************************************************)
(* ollama_call on its own: fn_args holds the answers the service gives to  *)
(* the successive requests, and attempt[1] and slept[1] are the loop       *)
(* variable and the sleeps of the call.                                    *)
(***************************************************************************)
\* answers of the service: two texts, nothing, a transport error
ServiceAnswers ==
    {r \in Responses : AttemptText(r) = <<>> \/ r.text \in {TGood, TMid}}

AnswerSeqs == [1..RETRIES + 1 -> ServiceAnswers]

InitOllama == InitCall("ollama_call", AnswerSeqs)

\* the call is entered: last_err = None and the first pass of the loop
OllamaEnter ==
    /\ fn = "ollama_call"
    /\ ~Returned
    /\ attempt[1] = 0
    /\ attempt' = [attempt EXCEPT ![1] = 1]
    /\ UNCHANGED <<shared, pc, args, md_idx, items, it_idx, counters, content_md,
                   verdict, section_ctx, ghosts, slept, pure>>

\* one pass of the loop: the request, then return text, or sleep and go
\* round again, or sleep and raise
OllamaAttempt ==
    /\ fn = "ollama_call"
    /\ ~Returned
    /\ attempt[1] >= 1
    /\ LET n == attempt[1]
           text == AttemptText(fn_args[n])
       IN  IF text # <<>>
           THEN /\ fn_result' = <<[raised |-> FALSE, text |-> text, requests |-> n]>>
                /\ UNCHANGED <<attempt, slept>>
           ELSE /\ slept' = [slept EXCEPT ![1] = Append(@, Delay(n))]
                /\ IF AttemptsLeft(n)
                   THEN /\ attempt' = [attempt EXCEPT ![1] = n + 1]
                        /\ UNCHANGED fn_result
                   ELSE /\ fn_result' = <<[raised |-> TRUE, text |-> <<>>,
                                           requests |-> n]>>
                        /\ UNCHANGED attempt
    /\ UNCHANGED <<shared, pc, args, md_idx, items, it_idx, counters, content_md,
                   verdict, section_ctx, ghosts, fn, fn_args>>

NextOllama == OllamaEnter \/ OllamaAttempt

\* the process that made the call keeps running it
SpecOllama == InitOllama /\ [][NextOllama]_vars /\ WF_vars(NextOllama)

\* the first of the RETRIES answers that carries a text (0: none does)
FirstText(answers) ==
    LET good == {k \in 1..RETRIES :
                    ~answers[k].error /\ StripText(answers[k].text) # <<>>}
    IN  IF good = {} THEN 0 ELSE CHOOSE k \in good : \A l \in good : k <= l

\* C18: every call of ollama_call returns or raises, after at most RETRIES
\* requests.  It returns the text of the first answer that is not empty,
\* having made no request after it; an empty answer and a transport error
\* are failed attempts; failed attempt number k is followed by a sleep of k
\* seconds; when RETRIES attempts have failed the call raises once.
C18_BoundedRetries ==
    /\ <>Returned
    /\ [](/\ attempt[1] <= RETRIES
          /\ Len(slept[1]) <= RETRIES
          /\ \A k \in 1..Len(slept[1]) : slept[1][k] = k
          /\ Returned =>
               LET first == FirstText(fn_args)
               IN  IF first # 0
                   THEN /\ ~Result.raised
                        /\ Result.text = StripText(fn_args[first].text)
                        /\ Result.requests = first
                        /\ Len(slept[1]) = first - 1
                   ELSE /\ Result.raised
                        /\ Result.requests = RETRIES
                        /\ Len(slept[1]) = RETRIES)

\* an empty answer, a sleep of one second, then a text at the second
\* request, returned although the third answer has a text too
C18_Witness ==
    /\ fn = "ollama_call" /\ Returned
    /\ fn_args[1] = [error |-> FALSE, text |-> << <<>> >>]
    /\ ~fn_args[3].error /\ fn_args[3].text = TGood
    /\ ~Result.raised
    /\ Result.text = StripText(fn_args[2].text)
    /\ Result.requests = 2
    /\ slept[1] = <<1>>

\* the run of p has made as many first-generation calls as --limit allows
AtLimit(p) == args[p].limit > 0 /\ counters[p].generated >= args[p].limit

\* C19: with --limit N > 0 the counter "generated" never exceeds N; only a
\* generation call that returned adds to it (a repair call or a cache hit
\* does not); and once it is N the run takes up no further item: the item
\* in hand is finished and the loops over items and documents end.
C19_LimitBoundsGeneration ==
    /\ [](\A p \in Procs :
            /\ args[p].limit > 0 => counters[p].generated <= args[p].limit
            /\ AtLimit(p) => pc[p] \in {"repair", "cache_write", "persist",
                                        "item_loop", "tally", "idle"})
    /\ [][\A p \in Procs :
            /\ (pc[p] # "idle" /\ counters'[p].generated # counters[p].generated)
                 => /\ pc[p] = "generate"
                    /\ counters'[p].generated = counters[p].generated + 1
            /\ (/\ AtLimit(p)
                /\ pc[p] = "item_loop"
                /\ pc'[p] # pc[p] \/ it_idx'[p] # it_idx[p] \/ hist'[p] # hist[p])
                 => /\ pc'[p] = "tally"
                    /\ UNCHANGED <<hist, counters, cache, posts, it_idx, md_idx>>]_vars

\* --limit 2: two generation calls were made and the run goes to the
\* tally with documents left
C19_Witness ==
    /\ args[1].limit = 2
    /\ counters[1].generated = 2
    /\ pc[1] = "tally"
    /\ md_idx[1] < Len(docs)


\* main is at the head of the loop body with an item whose pair is a row
\* of the posts table
ReachedStored(p) ==
    /\ pc[p] = "item_loop"
    /\ it_idx[p] <= Len(items[p])
    /\ ~(args[p].limit > 0 /\ counters[p].generated >= args[p].limit)
    /\ \E i \in 1..Len(posts) : /\ posts[i].title = it(p).h3_title
                                /\ posts[i].category = it(p).category

\* C20: an item whose (title, category) is already in the posts table when
\* main reaches it is counted as skipped and nothing else is done: no
\* cache file read or written, no context built, no generator call, no
\* change of the table; main goes to the next item.
C20_StoredItemOnlySkipped ==
    [][\A p \in Procs :
         (ReachedStored(p) /\ <<pc[p], it_idx[p], hist[p]>>' # <<pc[p], it_idx[p], hist[p]>>)
           => /\ counters'[p] = [counters[p] EXCEPT !.skipped = @ + 1]
              /\ pc'[p] = "item_loop"
              /\ it_idx'[p] = it_idx[p] + 1
              /\ UNCHANGED <<cache, posts, content_md, verdict, section_ctx,
                             attempt, slept, ended>>
              /\ hist'[p].end = "skip"
              /\ hist'[p].cache = "none"
              /\ ~hist'[p].ctx /\ hist'[p].gen = 0 /\ hist'[p].rep = 0
              /\ ~hist'[p].written /\ ~hist'[p].stored]_vars

\* the second "### T" of a.md has been skipped in the run that stored the
\* first
C20_Witness ==
    /\ ended[1] = "running"
    /\ ~rerun[1]
    /\ posts_at_start[1] = <<>>
    /\ pc[1] = "item_loop"
    /\ hist[1].end = "skip"
    /\ hist[1].title = <<"T">>
    /\ counters[1].skipped = 1
    /\ counters[1].inserted = 1
    /\ Len(posts) = 1

====
